---- MODULE Spec2Model ----
(***************************************************************************)
(* ABP signal viewer: the analysis pipeline of models/abp_model.py and the *)
(* load / apply handlers of controllers/main_controller.py.                *)
(*                                                                         *)
(* Numbers.  A float sample is modelled as an exact rational <<n, d>> in   *)
(* lowest terms with d > 0.  NaN is <<0, 0>>.  Opaque == <<1, 0>> stands   *)
(* for a finite float whose value the model does not compute (a Gaussian   *)
(* kernel with more than one non-zero tap, the output of scipy's filtfilt).*)
(* A python value that may be None is <<>> (None) or <<x>> (the value x).  *)
(***************************************************************************)
EXTENDS Integers, Sequences, FiniteSets, TLC

VARIABLES
    model,      \* the ABPModel object: a record of its attributes
    view,       \* the MainView widgets the handlers read: a record of their values
    dialogs,    \* the message boxes shown by the last handler
    stages,     \* the pipeline stages the last load / apply handler started
    action,     \* which handler ran last: "init", "edit", "load", "apply",
                \* "plot", "freq", "zoom", "close"
    call,       \* the last direct call of a pipeline function (SpecFn)
    ui          \* the plot widgets, the temporary files and what the last
                \* handler did with them

vars == <<model, view, dialogs, stages, action, call, ui>>

----------------------------------------------------------------------------
(* Bounds of the model *)

\* longest input signal of a direct function call
MaxLen == 4
\* largest sample level of an input signal (levels are 0..MaxLevel)
MaxLevel == 2
\* largest running-mean window the window_size_spin is moved to
MaxWin == 1

\* longest input signal of a direct peak detection
MaxPeakLen == 7
\* largest sample index of a peak set given directly to the metrics
MaxPeak == 5
\* the temporary files counted: MaxFiles stands for MaxFiles files or more
MaxFiles == 2

----------------------------------------------------------------------------
(* Python's None and optional values *)

None == <<>>
Some(x) == <<x>>
IsNone(o) == Len(o) = 0
Val(o) == o[1]

----------------------------------------------------------------------------
(* Float arithmetic, as exact rationals *)

NaN == <<0, 0>>
Opaque == <<1, 0>>

IsNaN(x) == x = NaN
IsOpaque(x) == x = Opaque
IsNum(x) == x[2] > 0

Abs(i) == IF i < 0 THEN -i ELSE i

RECURSIVE GCD(_, _)
GCD(a, b) == IF b = 0 THEN a ELSE GCD(b, a % b)

\* the float n/d, d # 0
Rat(n, d) ==
    LET s == IF d < 0 THEN -1 ELSE 1
        g == GCD(Abs(n), Abs(d))
    IN  <<(s * n) \div g, (s * d) \div g>>

Num(i) == <<i, 1>>

RAdd(x, y) ==
    IF IsNaN(x) \/ IsNaN(y) THEN NaN
    ELSE IF IsOpaque(x) \/ IsOpaque(y) THEN Opaque
    ELSE Rat(x[1] * y[2] + y[1] * x[2], x[2] * y[2])

RNeg(x) == IF IsNum(x) THEN <<-x[1], x[2]>> ELSE x

RSub(x, y) == RAdd(x, RNeg(y))

\* 0.0 * finite is 0.0, anything * nan is nan
RMul(x, y) ==
    IF IsNaN(x) \/ IsNaN(y) THEN NaN
    ELSE IF x = Num(0) \/ y = Num(0) THEN Num(0)
    ELSE IF IsOpaque(x) \/ IsOpaque(y) THEN Opaque
    ELSE Rat(x[1] * y[1], x[2] * y[2])

\* x / y for y a non-zero number
RDiv(x, y) ==
    IF IsNaN(x) \/ IsNaN(y) THEN NaN
    ELSE IF IsOpaque(x) \/ IsOpaque(y) THEN Opaque
    ELSE Rat(x[1] * y[2], x[2] * y[1])

\* comparisons of floats: every comparison with nan is False
RLt(x, y) == IsNum(x) /\ IsNum(y) /\ x[1] * y[2] < y[1] * x[2]
RLe(x, y) == IsNum(x) /\ IsNum(y) /\ x[1] * y[2] <= y[1] * x[2]
REq(x, y) == IsNum(x) /\ IsNum(y) /\ x = y

RECURSIVE RSum(_)
RSum(s) == IF s = <<>> THEN Num(0) ELSE RAdd(Head(s), RSum(Tail(s)))

Indices(s) == 1..Len(s)
HasNaN(s) == \E i \in Indices(s) : IsNaN(s[i])

RMax2(x, y) == IF RLt(x, y) THEN y ELSE x
RMin2(x, y) == IF RLt(y, x) THEN y ELSE x

----------------------------------------------------------------------------
(* numpy helpers *)

\* np.convolve(a, v, mode='full')[k], k counted from 0
ConvFull(a, v, k) ==
    RSum([j \in 1..Cardinality({i \in 0..(Len(a) - 1) : k - i >= 0 /\ k - i < Len(v)}) |->
            LET lo == IF k - (Len(v) - 1) > 0 THEN k - (Len(v) - 1) ELSE 0
                i  == lo + j - 1
            IN  RMul(a[i + 1], v[k - i + 1])])

\* np.convolve(a, v, mode='same') of two non-empty arrays: the centre of the
\* full convolution, as long as the LONGER of the two arguments
ConvSameLen(a, v) == IF Len(a) >= Len(v) THEN Len(a) ELSE Len(v)

ConvSame(a, v) ==
    LET n   == IF Len(a) >= Len(v) THEN Len(v) ELSE Len(a)
        off == (n - 1) \div 2
    IN  [i \in 1..ConvSameLen(a, v) |-> ConvFull(a, v, (i - 1) + off)]

\* the numbers of s, nan dropped, in the order of s
RECURSIVE DropNaN(_)
DropNaN(s) ==
    IF s = <<>> THEN <<>>
    ELSE IF IsNaN(Head(s)) THEN DropNaN(Tail(s))
    ELSE <<Head(s)>> \o DropNaN(Tail(s))

RECURSIVE Insert(_, _)
Insert(x, s) ==
    IF s = <<>> THEN <<x>>
    ELSE IF RLe(x, Head(s)) THEN <<x>> \o s
    ELSE <<Head(s)>> \o Insert(x, Tail(s))

RECURSIVE Sorted(_)
Sorted(s) == IF s = <<>> THEN <<>> ELSE Insert(Head(s), Sorted(Tail(s)))

\* np.nanpercentile(signal, q), q an integer percentage: linear interpolation
\* between the two closest ranks of the non-nan samples; nan when there is none
nanpercentile(signal, q) ==
    LET v == Sorted(DropNaN(signal))
        n == Len(v)
    IN  IF n = 0 THEN NaN
        ELSE LET pos == q * (n - 1)          \* virtual index, in hundredths
                 lo  == pos \div 100
                 fr  == pos % 100
             IN  IF fr = 0 THEN v[lo + 1]
                 ELSE RAdd(v[lo + 1],
                           RMul(Rat(fr, 100), RSub(v[lo + 2], v[lo + 1])))

\* np.diff of a sequence of integers
diff(p) == [i \in 1..(IF Len(p) < 2 THEN 0 ELSE Len(p) - 1) |-> p[i + 1] - p[i]]

\* np.diff of a sequence of floats
rdiff(s) == [i \in 1..(IF Len(s) < 2 THEN 0 ELSE Len(s) - 1) |-> RSub(s[i + 1], s[i])]

\* np.nanmin / np.nanmax of an array with at least one number
RECURSIVE FoldMin(_)
FoldMin(s) == IF Len(s) = 1 THEN s[1] ELSE RMin2(Head(s), FoldMin(Tail(s)))
RECURSIVE FoldMax(_)
FoldMax(s) == IF Len(s) = 1 THEN s[1] ELSE RMax2(Head(s), FoldMax(Tail(s)))

nanmin(s) == IF DropNaN(s) = <<>> THEN NaN ELSE FoldMin(DropNaN(s))
nanmax(s) == IF DropNaN(s) = <<>> THEN NaN ELSE FoldMax(DropNaN(s))
mean(s) == IF s = <<>> THEN NaN ELSE RDiv(RSum(s), Num(Len(s)))
nanmean(s) == mean(DropNaN(s))

\* x[i] for a python index i (counted from 0)
At(x, i) == x[i + 1]

----------------------------------------------------------------------------
(* utils/helper_functions.py *)

validate_value_range_ne(min_val, max_val) == min_val # max_val

validate_value_range(min_val, max_val) == RLt(min_val, max_val)

----------------------------------------------------------------------------
(* models/abp_model.py: the filter strategies.  apply returns None or Some(array) *)

\* RunningMeanFilter.apply with a kernel one tap too long
RunningMeanFilter_apply_wide(window_size, signal) ==
    IF window_size < 1 THEN None
    ELSE IF Len(signal) = 0 THEN None
    ELSE Some(ConvSame(signal, [i \in 1..(window_size + 1) |-> Rat(1, window_size + 1)]))

\* RunningMeanFilter.apply that ignores its window and returns a copy
RunningMeanFilter_apply_copy(window_size, signal) ==
    IF window_size < 1 THEN None
    ELSE IF Len(signal) = 0 THEN None
    ELSE Some(ConvSame(signal, <<Num(1)>>))

\* RunningMeanFilter.apply with the window clamped to 1 instead of rejected
RunningMeanFilter_apply_clamped(window_size, signal) ==
    IF Len(signal) = 0 THEN None
    ELSE LET w == IF window_size < 1 THEN 1 ELSE window_size
         IN  Some(ConvSame(signal, [i \in 1..w |-> Rat(1, w)]))

\* RunningMeanFilter.apply that repeats the first and the last sample past
\* the edges of the signal instead of padding with zeros
RunningMeanFilter_apply_edges(window_size, signal) ==
    IF window_size < 1 THEN None
    ELSE IF Len(signal) = 0 THEN None
    ELSE IF window_size > Len(signal)
    THEN Some(ConvSame(signal, [i \in 1..window_size |-> Rat(1, window_size)]))
    ELSE Some([i \in 1..Len(signal) |->
                RSum([k \in 1..window_size |->
                        LET j == i - (window_size - 1 - (window_size - 1) \div 2) + (k - 1)
                            c == IF j < 1 THEN 1 ELSE IF j > Len(signal) THEN Len(signal) ELSE j
                        IN  RMul(signal[c], Rat(1, window_size))])])

\* RunningMeanFilter.apply(signal, fs) with self.window_size = window_size
RunningMeanFilter_apply(window_size, signal) ==
    IF window_size < 1 THEN None                       \* raise ValueError
    ELSE IF Len(signal) = 0 THEN None                  \* np.convolve raises
    ELSE Some(ConvSame(signal, [i \in 1..window_size |-> Rat(1, window_size)]))

\* exp(-4 ln2 s) is 0.0 in binary64 for every s >= UnderflowSq
UnderflowSq == 269

\* len(np.arange(-t_max, t_max + dt, dt)): ceil(6 w fs + 1), w = fwhm / 1000
GaussianKernelLen(fwhm, fs) == (6 * fwhm * fs + 999) \div 1000 + 1

\* whether tap k (from 0) of the unnormalised kernel, at t = -3w + k dt, is 0.0
GaussianTapIsZero(fwhm, fs, k) ==
    LET F == fwhm * fs
    IN  (1000 * k - 3 * F) * (1000 * k - 3 * F) >= UnderflowSq * F * F

\* kernel / np.sum(kernel): tap 0 is 2^-36; when every other tap underflows the
\* kernel is exactly [1, 0, ..., 0], else its non-zero taps are not computed
GaussianKernel(fwhm, fs) ==
    LET n    == GaussianKernelLen(fwhm, fs)
        unit == \A k \in 1..(n - 1) : GaussianTapIsZero(fwhm, fs, k)
    IN  [i \in 1..n |->
            IF i > 1 /\ GaussianTapIsZero(fwhm, fs, i - 1) THEN Num(0)
            ELSE IF unit THEN Num(1) ELSE Opaque]

\* GaussianFilter.apply(signal, fs) with self.fwhm = fwhm (milliseconds)
GaussianFilter_apply(fwhm, signal, fs) ==
    IF fwhm <= 0 THEN None                             \* raise ValueError
    ELSE IF Len(signal) = 0 THEN None                  \* np.convolve raises
    ELSE Some(ConvSame(signal, GaussianKernel(fwhm, fs)))

\* ButterworthFilter.apply that accepts a signal exactly as long as the padding
ButterworthFilter_run_lax(lowcut, highcut, order, signal, fs) ==
    LET nyquist == 500 * fs
        lo0  == IF lowcut < nyquist - 1 THEN lowcut ELSE nyquist - 1
        low  == IF lo0 > 1 THEN lo0 ELSE 1
        hi0  == IF highcut < nyquist - 1 THEN highcut ELSE nyquist - 1
        high == IF hi0 > low + 1 THEN hi0 ELSE low + 1
        at   == IF low >= high THEN "check"
                ELSE IF ~(0 < low /\ high < nyquist) THEN "butter"
                ELSE IF Len(signal) < 3 * (2 * order + 1) THEN "filtfilt"
                ELSE "none"
    IN  [low |-> low, high |-> high, nyquist |-> nyquist, raised |-> at,
         out |-> IF at # "none" THEN None
                 ELSE Some([i \in 1..Len(signal) |->
                              IF HasNaN(signal) THEN NaN ELSE Opaque])]

\* the body of ButterworthFilter.apply(signal, fs); lowcut and highcut in mHz
\* (nyquist = 0.5 fs Hz = 500 fs mHz, the epsilon 0.001 Hz = 1 mHz): the
\* clamped cutoffs [low, high], where it raised ("check": the low >= high
\* test, "butter": the filter design, which raises unless 0 < low < high <
\* nyquist, "filtfilt": which raises unless the signal is longer than its
\* padding 3 * max(len(a), len(b)) = 3 * (2 * order + 1), "none") and what
\* apply returns; the samples filtfilt returns are not computed (all of them
\* nan if one input is)
ButterworthFilter_run(lowcut, highcut, order, signal, fs) ==
    LET nyquist == 500 * fs
        lo0  == IF lowcut < nyquist - 1 THEN lowcut ELSE nyquist - 1
        low  == IF lo0 > 1 THEN lo0 ELSE 1
        hi0  == IF highcut < nyquist - 1 THEN highcut ELSE nyquist - 1
        high == IF hi0 > low + 1 THEN hi0 ELSE low + 1
        at   == IF low >= high THEN "check"                     \* raise ValueError
                ELSE IF ~(0 < low /\ high < nyquist) THEN "butter"
                ELSE IF Len(signal) <= 3 * (2 * order + 1) THEN "filtfilt"
                ELSE "none"
    IN  [low |-> low, high |-> high, nyquist |-> nyquist, raised |-> at,
         out |-> IF at # "none" THEN None                       \* except: return None
                 ELSE Some([i \in 1..Len(signal) |->
                              IF HasNaN(signal) THEN NaN ELSE Opaque])]

\* ButterworthFilter.apply(signal, fs): None or Some(array)
ButterworthFilter_apply(lowcut, highcut, order, signal, fs) ==
    ButterworthFilter_run(lowcut, highcut, order, signal, fs).out

\* FilterStrategy.apply of the strategy object st
FilterStrategy_apply(st, signal, fs) ==
    IF st.type = "Butterworth"
        THEN ButterworthFilter_apply(st.lowcut, st.highcut, st.order, signal, fs)
    ELSE IF st.type = "Running Mean"
        THEN RunningMeanFilter_apply(st.window_size, signal)
    ELSE GaussianFilter_apply(st.fwhm, signal, fs)

Strategy(type, lowcut, highcut, order, window_size, fwhm) ==
    [type |-> type, lowcut |-> lowcut, highcut |-> highcut, order |-> order,
     window_size |-> window_size, fwhm |-> fwhm]

----------------------------------------------------------------------------
(* models/abp_model.py: ABPModel *)

\* apply_value_range_filter with the bounds excluded
apply_value_range_filter_exclusive(signal, min_val, max_val) ==
    LET mask == [i \in 1..Len(signal) |-> RLt(min_val, signal[i]) /\ RLt(signal[i], max_val)]
    IN  IF ~(\E i \in 1..Len(signal) : mask[i]) THEN None
        ELSE Some([i \in 1..Len(signal) |-> IF mask[i] THEN signal[i] ELSE NaN])

\* ABPModel.apply_value_range_filter: None or Some(copy with the samples
\* outside [min_val, max_val] set to nan)
apply_value_range_filter(signal, min_val, max_val) ==
    LET mask == [i \in 1..Len(signal) |-> RLe(min_val, signal[i]) /\ RLe(signal[i], max_val)]
    IN  IF ~(\E i \in 1..Len(signal) : mask[i]) THEN None
        ELSE Some([i \in 1..Len(signal) |-> IF mask[i] THEN signal[i] ELSE NaN])

(* scipy.signal.find_peaks, as ABPModel.detect_peaks calls it *)

\* _local_maxima_1d: the end of the plateau that starts at i
RECURSIVE PlateauAhead(_, _, _)
PlateauAhead(x, i, ahead) ==
    IF ahead < Len(x) - 1 /\ REq(At(x, ahead), At(x, i))
    THEN PlateauAhead(x, i, ahead + 1) ELSE ahead

\* _local_maxima_1d: the midpoints of the maxima (plateaus) from index i on;
\* the first and the last sample are never maxima
RECURSIVE LocalMaxima(_, _)
LocalMaxima(x, i) ==
    IF i >= Len(x) - 1 THEN <<>>
    ELSE IF RLt(At(x, i - 1), At(x, i))
         THEN LET ahead == PlateauAhead(x, i, i + 1)
              IN  IF RLt(At(x, ahead), At(x, i))
                  THEN <<(i + ahead - 1) \div 2>> \o LocalMaxima(x, ahead + 1)
                  ELSE LocalMaxima(x, i + 1)
         ELSE LocalMaxima(x, i + 1)

\* the peaks at or above height (none when height is nan)
RECURSIVE SelectByHeight(_, _, _)
SelectByHeight(x, peaks, height) ==
    IF peaks = <<>> THEN <<>>
    ELSE IF RLe(height, At(x, Head(peaks)))
         THEN <<Head(peaks)>> \o SelectByHeight(x, Tail(peaks), height)
         ELSE SelectByHeight(x, Tail(peaks), height)

\* _select_by_peak_distance walks the peaks from the last to the first position
\* of np.argsort(priority): a is visited before b when it is taller or, of equal
\* height (a stable sort), when it is the later of the two
VisitedBefore(x, peaks, a, b) ==
    \/ RLt(At(x, peaks[b]), At(x, peaks[a]))
    \/ At(x, peaks[b]) = At(x, peaks[a]) /\ a > b

\* _select_by_peak_distance in which a dropped position still drops its
\* neighbours
RECURSIVE SelectByDistance_greedy(_, _, _, _, _)
SelectByDistance_greedy(x, peaks, distance, todo, keep) ==
    IF todo = {} THEN keep
    ELSE LET j == CHOOSE a \in todo : \A b \in todo \ {a} : VisitedBefore(x, peaks, a, b)
             k2 == [k \in DOMAIN keep |->
                       keep[k] /\ (k = j \/ Abs(peaks[k] - peaks[j]) >= distance)]
         IN  SelectByDistance_greedy(x, peaks, distance, todo \ {j}, k2)

\* _select_by_peak_distance: todo are the positions still to visit; a visited
\* position that is still kept drops every position closer than distance
RECURSIVE SelectByDistance(_, _, _, _, _)
SelectByDistance(x, peaks, distance, todo, keep) ==
    IF todo = {} THEN keep
    ELSE LET j == CHOOSE a \in todo : \A b \in todo \ {a} : VisitedBefore(x, peaks, a, b)
             k2 == IF keep[j]
                   THEN [k \in DOMAIN keep |->
                            keep[k] /\ (k = j \/ Abs(peaks[k] - peaks[j]) >= distance)]
                   ELSE keep
         IN  SelectByDistance(x, peaks, distance, todo \ {j}, k2)

RECURSIVE KeepOnly(_, _)
KeepOnly(peaks, keep) ==
    IF peaks = <<>> THEN <<>>
    ELSE (IF keep[1] THEN <<Head(peaks)>> ELSE <<>>)
         \o KeepOnly(Tail(peaks), [k \in 1..(Len(keep) - 1) |-> keep[k + 1]])

\* find_peaks that keeps every peak at or above height, whatever the distance
find_peaks_crowded(x, height, distance) ==
    IF distance < 1 THEN None
    ELSE Some(SelectByHeight(x, LocalMaxima(x, 1), height))

\* find_peaks(x, height=height, distance=distance): None when it raises
\* (distance < 1), else Some(the indices of the peaks, counted from 0)
find_peaks(x, height, distance) ==
    IF distance < 1 THEN None
    ELSE LET cand == SelectByHeight(x, LocalMaxima(x, 1), height)
             keep == SelectByDistance(x, cand, distance, 1..Len(cand),
                                      [k \in 1..Len(cand) |-> TRUE])
         IN  Some(KeepOnly(cand, keep))

----------------------------------------------------------------------------
(* models/abp_model.py: the metrics *)

\* the float sqrt(q), kept as its radicand
Sqrt(q) == [sqrt_of |-> q]

\* calculate_hr with rr left in samples (not divided by fs)
calculate_hr_samples(peaks, fs) ==
    IF Len(peaks) < 2 THEN <<(<<>>), (<<>>)>>
    ELSE LET d  == diff(peaks)
             rr == [i \in 1..Len(d) |-> Num(d[i])]
             hr == [i \in 1..Len(d) |-> RDiv(Num(60), rr[i])]
         IN  <<hr, rr>>

\* ABPModel.calculate_hr: <<hr, rr>>
calculate_hr(peaks, fs) ==
    IF Len(peaks) < 2 THEN <<(<<>>), (<<>>)>>
    ELSE LET d  == diff(peaks)
             rr == [i \in 1..Len(d) |-> Rat(d[i], fs)]
             hr == [i \in 1..Len(d) |-> RDiv(Num(60), rr[i])]
         IN  <<hr, rr>>

\* compute_hrv in seconds (rmssd not multiplied by 1000)
compute_hrv_seconds(rr_intervals) ==
    IF Len(rr_intervals) < 2 THEN Sqrt(Num(0))
    ELSE LET d  == rdiff(rr_intervals)
             sq == [i \in 1..Len(d) |-> RMul(d[i], d[i])]
         IN  Sqrt(mean(sq))

\* ABPModel.compute_hrv: rmssd * 1000.0 = sqrt(mean(diff_rr ** 2) * 1000 ** 2)
compute_hrv(rr_intervals) ==
    IF Len(rr_intervals) < 2 THEN Sqrt(Num(0))
    ELSE LET d  == rdiff(rr_intervals)
             sq == [i \in 1..Len(d) |-> RMul(d[i], d[i])]
         IN  Sqrt(RMul(mean(sq), Num(1000000)))

\* ABPModel.calculate_pp; signal is None or Some(array).  signal[peaks] with an
\* index past the end raises IndexError, which the method turns into 0.0
calculate_pp(signal, peaks) ==
    IF IsNone(signal) \/ Len(peaks) = 0 THEN Num(0)
    ELSE IF Len(Val(signal)) = 0 THEN Num(0)
    ELSE IF \E i \in 1..Len(peaks) : peaks[i] >= Len(Val(signal)) THEN Num(0)
    ELSE RSub(nanmean([i \in 1..Len(peaks) |-> At(Val(signal), peaks[i])]),
              nanmin(Val(signal)))

\* assess_sqi that returns 1 - avg_der / mx as it is
assess_sqi_unclamped(signal) ==
    IF IsNone(signal) THEN Num(0)
    ELSE IF Len(Val(signal)) < 2 THEN Num(0)
    ELSE LET s_cln == DropNaN(Val(signal))
         IN  IF Len(s_cln) < 2 THEN Num(0)
             ELSE LET d       == rdiff(s_cln)
                      avg_der == mean([i \in 1..Len(d) |->
                                        IF RLt(d[i], Num(0)) THEN RNeg(d[i]) ELSE d[i]])
                      mx      == nanmax(s_cln)
                  IN  IF mx = Num(0) THEN Num(0)
                      ELSE RSub(Num(1), RDiv(avg_der, mx))

\* ABPModel.assess_sqi; signal is None or Some(array)
assess_sqi(signal) ==
    IF IsNone(signal) THEN Num(0)
    ELSE IF Len(Val(signal)) < 2 THEN Num(0)
    ELSE LET s_cln == DropNaN(Val(signal))
         IN  IF Len(s_cln) < 2 THEN Num(0)
             ELSE LET d       == rdiff(s_cln)
                      avg_der == mean([i \in 1..Len(d) |->
                                        IF RLt(d[i], Num(0)) THEN RNeg(d[i]) ELSE d[i]])
                      mx      == nanmax(s_cln)
                  IN  IF mx = Num(0) THEN Num(0)
                      ELSE RMax2(Num(0), RMin2(RSub(Num(1), RDiv(avg_der, mx)), Num(1)))

----------------------------------------------------------------------------
(* models/abp_model.py: the ABPModel object and its methods.  A method that  *)
(* changes the object returns [ok |-> its return value, m |-> the object    *)
(* after the call, log |-> the work it started].                            *)

\* ABPModel.__init__
ABPModel_init ==
    [abp_signal |-> None, fs |-> None, unit |-> "mmHg",
     filtered_signal |-> None,
     peaks_original |-> <<>>, peaks_filtered |-> <<>>,
     hr_original |-> <<>>, hr_filtered |-> <<>>,
     rr_intervals_original |-> <<>>, rr_intervals_filtered |-> <<>>,
     hrv_original |-> Sqrt(Num(0)), hrv_filtered |-> Sqrt(Num(0)),
     sqi_original |-> Num(0), sqi_filtered |-> Num(0),
     pp_original |-> Num(0), pp_filtered |-> Num(0),
     record_loaded |-> FALSE, filter_strategy |-> None]

\* MainController.all_records
all_records == {"p09/p099982/3001360_0001", "p09/p099982/3001360_0002", "p09/p099982/3001360_0003"}

Samples(levels) == [i \in 1..Len(levels) |-> Num(levels[i])]

\* what wfdb.rdrecord gives for a record of the archive: None when the record
\* has no ABP channel (or cannot be read), else Some of its ABP channel
Archive(record_name) ==
    IF record_name = "p09/p099982/3001360_0001"
        THEN Some([p_signal |-> Samples(<<80, 160, 80, 120, 160, 80>>),
                   fs |-> 2, units |-> "mmHg"])
    ELSE IF record_name = "p09/p099982/3001360_0002"
        THEN Some([p_signal |-> Samples(<<120, 160, 120>>), fs |-> 4, units |-> "kPa"])
    ELSE None

\* load_record that leaves record_loaded as it was when the load fails
load_record_sticky(m, record_name) ==
    LET record == Archive(record_name)
    IN  IF IsNone(record)
        THEN [ok |-> FALSE, m |-> m]
        ELSE [ok |-> TRUE,
              m  |-> [m EXCEPT !.abp_signal = Some(Val(record).p_signal),
                               !.fs = Some(Val(record).fs),
                               !.unit = Val(record).units,
                               !.record_loaded = TRUE]]

\* ABPModel.load_record
load_record(m, record_name) ==
    LET record == Archive(record_name)
    IN  IF IsNone(record)
        THEN [ok |-> FALSE, m |-> [m EXCEPT !.record_loaded = FALSE]]
        ELSE [ok |-> TRUE,
              m  |-> [m EXCEPT !.abp_signal = Some(Val(record).p_signal),
                               !.fs = Some(Val(record).fs),
                               !.unit = Val(record).units,
                               !.record_loaded = TRUE]]

\* ABPModel.set_filter_strategy for the three known filter types
set_filter_strategy(m, strategy) == [m EXCEPT !.filter_strategy = Some(strategy)]

\* ABPModel.apply_filter: the strategy is applied to self.abp_signal
apply_filter(m) ==
    IF IsNone(m.abp_signal) THEN [ok |-> FALSE, m |-> m]
    ELSE IF IsNone(m.filter_strategy) THEN [ok |-> FALSE, m |-> m]
    ELSE LET filtered == FilterStrategy_apply(Val(m.filter_strategy),
                                              Val(m.abp_signal), Val(m.fs))
         IN  IF IsNone(filtered) THEN [ok |-> FALSE, m |-> m]
             ELSE [ok |-> TRUE, m |-> [m EXCEPT !.filtered_signal = filtered]]

\* int(min_distance_sec * self.fs), min_distance_sec in hundredths of a second
distance_samples(min_distance_cs, fs) == (min_distance_cs * fs) \div 100

\* detect_peaks that raises the distance to one sample when it is less
detect_peaks_min_one(m, threshold_percentile, min_distance_cs) ==
    IF IsNone(m.abp_signal) THEN [ok |-> FALSE, m |-> m, log |-> <<>>]
    ELSE LET d0   == distance_samples(min_distance_cs, Val(m.fs))
             dist == IF d0 < 1 THEN 1 ELSE d0
             orig == find_peaks(Val(m.abp_signal),
                                nanpercentile(Val(m.abp_signal), threshold_percentile),
                                dist)
         IN  IF IsNone(m.filtered_signal)
             THEN [ok |-> TRUE,
                   m  |-> [m EXCEPT !.peaks_original = Val(orig), !.peaks_filtered = <<>>],
                   log |-> <<"peaks_original">>]
             ELSE LET filt == find_peaks(Val(m.filtered_signal),
                                  nanpercentile(Val(m.filtered_signal), threshold_percentile),
                                  dist)
                  IN  [ok |-> TRUE,
                       m  |-> [m EXCEPT !.peaks_original = Val(orig),
                                        !.peaks_filtered = Val(filt)],
                       log |-> <<"peaks_original", "peaks_filtered">>]

\* detect_peaks that fails when there is no filtered signal
detect_peaks_needs_filtered(m, threshold_percentile, min_distance_cs) ==
    IF IsNone(m.abp_signal) \/ IsNone(m.filtered_signal)
    THEN [ok |-> FALSE, m |-> m, log |-> <<>>]
    ELSE LET dist == distance_samples(min_distance_cs, Val(m.fs))
             orig == find_peaks(Val(m.abp_signal),
                                nanpercentile(Val(m.abp_signal), threshold_percentile),
                                dist)
             filt == find_peaks(Val(m.filtered_signal),
                                nanpercentile(Val(m.filtered_signal), threshold_percentile),
                                dist)
         IN  IF IsNone(orig)
             THEN [ok |-> FALSE, m |-> m, log |-> <<"peaks_original">>]
             ELSE [ok |-> TRUE,
                   m  |-> [m EXCEPT !.peaks_original = Val(orig),
                                    !.peaks_filtered = Val(filt)],
                   log |-> <<"peaks_original", "peaks_filtered">>]

\* ABPModel.detect_peaks; the first find_peaks raises when distance_samples < 1
detect_peaks(m, threshold_percentile, min_distance_cs) ==
    IF IsNone(m.abp_signal) THEN [ok |-> FALSE, m |-> m, log |-> <<>>]
    ELSE LET dist == distance_samples(min_distance_cs, Val(m.fs))
             orig == find_peaks(Val(m.abp_signal),
                                nanpercentile(Val(m.abp_signal), threshold_percentile),
                                dist)
         IN  IF IsNone(orig)
             THEN [ok |-> FALSE, m |-> m, log |-> <<"peaks_original">>]
             ELSE IF IsNone(m.filtered_signal)
             THEN [ok |-> TRUE,
                   m  |-> [m EXCEPT !.peaks_original = Val(orig), !.peaks_filtered = <<>>],
                   log |-> <<"peaks_original">>]
             ELSE LET filt == find_peaks(Val(m.filtered_signal),
                                  nanpercentile(Val(m.filtered_signal), threshold_percentile),
                                  dist)
                  IN  [ok |-> TRUE,
                       m  |-> [m EXCEPT !.peaks_original = Val(orig),
                                        !.peaks_filtered = Val(filt)],
                       log |-> <<"peaks_original", "peaks_filtered">>]

\* calculate_metrics that leaves pp_filtered as it was
calculate_metrics_stale_pp(m) ==
    IF ~m.record_loaded THEN [ok |-> FALSE, m |-> m, log |-> <<>>]
    ELSE LET o == calculate_hr(m.peaks_original, Val(m.fs))
             f == calculate_hr(m.peaks_filtered, Val(m.fs))
         IN  [ok |-> TRUE,
              m  |-> [m EXCEPT
                        !.hr_original = o[1],
                        !.rr_intervals_original = o[2],
                        !.hrv_original = compute_hrv(o[2]),
                        !.sqi_original = assess_sqi(m.abp_signal),
                        !.pp_original = calculate_pp(m.abp_signal, m.peaks_original),
                        !.hr_filtered = f[1],
                        !.rr_intervals_filtered = f[2],
                        !.hrv_filtered = compute_hrv(f[2]),
                        !.sqi_filtered = IF IsNone(m.filtered_signal) THEN Num(0)
                                         ELSE assess_sqi(m.filtered_signal)],
              log |-> <<"metrics_original", "metrics_filtered">>]

\* ABPModel.calculate_metrics
calculate_metrics(m) ==
    IF ~m.record_loaded THEN [ok |-> FALSE, m |-> m, log |-> <<>>]
    ELSE LET o == calculate_hr(m.peaks_original, Val(m.fs))
             f == calculate_hr(m.peaks_filtered, Val(m.fs))
         IN  [ok |-> TRUE,
              m  |-> [m EXCEPT
                        !.hr_original = o[1],
                        !.rr_intervals_original = o[2],
                        !.hrv_original = compute_hrv(o[2]),
                        !.sqi_original = assess_sqi(m.abp_signal),
                        !.pp_original = calculate_pp(m.abp_signal, m.peaks_original),
                        !.hr_filtered = f[1],
                        !.rr_intervals_filtered = f[2],
                        !.hrv_filtered = compute_hrv(f[2]),
                        !.sqi_filtered = IF IsNone(m.filtered_signal) THEN Num(0)
                                         ELSE assess_sqi(m.filtered_signal),
                        !.pp_filtered = IF IsNone(m.filtered_signal) THEN Num(0)
                                        ELSE calculate_pp(m.filtered_signal, m.peaks_filtered)],
              log |-> <<"metrics_original", "metrics_filtered">>]

----------------------------------------------------------------------------
(* controllers/main_controller.py: the load and apply handlers.  A handler   *)
(* is a chain of steps over r = [m, ok, stages, dialogs]: m is the model    *)
(* object, ok is FALSE once the handler has returned (or raised), stages    *)
(* the pipeline stages started so far, dialogs the message boxes shown.     *)

Error(title, text) == [kind |-> "error", title |-> title, text |-> text]
Info(title) == [kind |-> "info", title |-> title, text |-> ""]

Begin(m) == [m |-> m, ok |-> TRUE, stages |-> <<>>, dialogs |-> <<>>]

\* show_error_message and return (load_record), raise ValueError (apply_parameters)
Stop(r, m, started, error) ==
    [m |-> m, ok |-> FALSE, stages |-> r.stages \o started,
     dialogs |-> Append(r.dialogs, error)]

Go(r, m, started) == [r EXCEPT !.m = m, !.stages = r.stages \o started]

\* the dialog of a failed stage: load_record names the stage in the title,
\* apply_parameters shows the text of the ValueError under "Apply Error"
Failure(handler, title, text_load, text_apply) ==
    IF handler = "load" THEN Error(title, text_load) ELSE Error("Apply Error", text_apply)

\* if not validate_value_range(mn, mx): ...
StepValidate(r, v, handler) ==
    IF ~r.ok THEN r
    ELSE IF validate_value_range(Num(v.min_value_spin), Num(v.max_value_spin))
         THEN Go(r, r.m, <<"validate">>)
         ELSE Stop(r, r.m, <<"validate">>,
                   Failure(handler, "Param Error", "Min >= Max.", "Min >= Max."))

\* the range filter masking self.abp_signal in place (no signal.copy())
StepRange_inplace(r, v, handler) ==
    IF ~r.ok THEN r
    ELSE LET rngf == apply_value_range_filter(Val(r.m.abp_signal),
                         Num(v.min_value_spin), Num(v.max_value_spin))
         IN  IF IsNone(rngf) \/ Len(Val(rngf)) = 0
             THEN Stop(r, r.m, <<"range">>,
                       Failure(handler, "Range Filter", "No valid data in range.",
                               "No valid data after range filter."))
             ELSE Go(r, [r.m EXCEPT !.filtered_signal = rngf, !.abp_signal = rngf],
                     <<"range">>)

\* rngf = apply_value_range_filter(abp_signal, mn, mx); ...; filtered_signal = rngf
StepRange(r, v, handler) ==
    IF ~r.ok THEN r
    ELSE LET rngf == apply_value_range_filter(Val(r.m.abp_signal),
                         Num(v.min_value_spin), Num(v.max_value_spin))
         IN  IF IsNone(rngf) \/ Len(Val(rngf)) = 0
             THEN Stop(r, r.m, <<"range">>,
                       Failure(handler, "Range Filter", "No valid data in range.",
                               "No valid data after range filter."))
             ELSE Go(r, [r.m EXCEPT !.filtered_signal = rngf], <<"range">>)

\* the strategy the handler builds from the widgets of the selected filter type
StrategyOf(v) ==
    IF v.filter_type_combo = "Butterworth"
        THEN Strategy("Butterworth", v.lowcut_spin, v.highcut_spin, v.order_spin, 0, 0)
    ELSE IF v.filter_type_combo = "Running Mean"
        THEN Strategy("Running Mean", 0, 0, 0, v.window_size_spin, 0)
    ELSE Strategy("Gaussian", 0, 0, 0, 0, v.fwhm_spin)

\* ft = filter_type_combo.currentText(); set_filter_strategy(ft, ...)
StepConfigure(r, v, handler) ==
    IF ~r.ok THEN r
    ELSE IF v.filter_type_combo \in {"Butterworth", "Running Mean", "Gaussian"}
         THEN Go(r, set_filter_strategy(r.m, StrategyOf(v)), <<"configure">>)
         ELSE Stop(r, r.m, <<"configure">>,
                   Failure(handler, "Filter Error", "Unknown filter type.",
                           "Unknown filter type: "))

\* the filter stage with the result of apply_filter ignored
StepFilter_unchecked(r, handler) ==
    IF ~r.ok THEN r ELSE Go(r, apply_filter(r.m).m, <<"filter">>)

\* if not self.model.apply_filter(): ...
StepFilter(r, handler) ==
    IF ~r.ok THEN r
    ELSE LET c == apply_filter(r.m)
         IN  IF c.ok THEN Go(r, c.m, <<"filter">>)
             ELSE Stop(r, c.m, <<"filter">>,
                       Failure(handler, "Filter Error", "Failed to apply filter.",
                               "Failed to apply filter."))

\* if not self.model.detect_peaks(threshold_percentile=thr, min_distance_sec=dist): ...
StepPeaks(r, v, handler) ==
    IF ~r.ok THEN r
    ELSE LET c == detect_peaks(r.m, v.threshold_spin, v.distance_spin)
         IN  IF c.ok THEN Go(r, c.m, c.log)
             ELSE Stop(r, c.m, c.log,
                       Failure(handler, "Peaks Error", "Failed to detect peaks.",
                               "Detect peaks failed."))

\* if not self.model.calculate_metrics(): ...
StepMetrics(r, handler) ==
    IF ~r.ok THEN r
    ELSE LET c == calculate_metrics(r.m)
         IN  IF c.ok THEN Go(r, c.m, c.log)
             ELSE Stop(r, c.m, c.log,
                       Failure(handler, "Metrics Error", "Failed to calc metrics.",
                               "Calc metrics failed."))

\* the plots are regenerated and show_info_message is called
StepPublish(r, handler) ==
    IF ~r.ok THEN r
    ELSE [r EXCEPT !.dialogs = Append(@, Info(IF handler = "load" THEN "Record Loaded"
                                                ELSE "Parameters Applied"))]

\* the stages both handlers share, from the range validation on
Pipeline(r, v, handler) ==
    StepPublish(
      StepMetrics(
        StepPeaks(
          StepFilter(
            StepConfigure(
              StepRange(
                StepValidate(r, v, handler),
              v, handler),
            v, handler),
          handler),
        v, handler),
      handler),
    handler)

\* MainController.load_record with record_combo at rec
Controller_load_record(m, v, rec) ==
    LET c == load_record(m, rec)
    IN  IF ~c.ok
        THEN Stop(Begin(m), c.m, <<"load">>, Error("Load Error", "Failed to load record."))
        ELSE Pipeline(Go(Begin(m), c.m, <<"load">>), v, "load")

\* MainController.apply_parameters
Controller_apply_parameters(m, v) ==
    IF ~m.record_loaded
    THEN Stop(Begin(m), m, <<>>, Error("No Record", "Load a record first."))
    ELSE Pipeline(Begin(m), v, "apply")

----------------------------------------------------------------------------
(* views/main_view.py: the widgets the handlers read *)

\* MainView.init_ui: the values the widgets are created with.  fwhm_spin is
\* created at 100 ms; it is modelled at 1 ms, where the kernel is exactly [1, 0]
View_init ==
    [record_combo |-> "p09/p099982/3001360_0001",
     filter_type_combo |-> "Butterworth",
     lowcut_spin |-> 300, highcut_spin |-> 8000, order_spin |-> 4,
     window_size_spin |-> 5, fwhm_spin |-> 1,
     threshold_spin |-> 70, distance_spin |-> 50,
     min_value_spin |-> 60, max_value_spin |-> 180]

\* the values the user moves the widgets to
FilterTypes == {"Butterworth", "Running Mean", "Gaussian"}
MinChoices == {60, 100}
MaxChoices == {90, 180}
WindowChoices == (1..MaxWin) \cup {5}
DistanceChoices == {25, 50}

----------------------------------------------------------------------------
(* views/main_view.py and controllers/main_controller.py: the plot widgets   *)
(* and the temporary files.  Frequencies are in tenths of a Hz.  A handler   *)
(* is a chain of steps over w = [u, dialogs]: u the widgets and files,       *)
(* dialogs the message boxes shown so far.                                   *)

PlotTypes == {"Time-Domain Analysis", "Frequency-Domain Analysis", "Histogram"}

\* MainView.__init__ / init_ui and MainController.__init__: plot_combo at its
\* first item, the frequency spin boxes at 0.0 and 20.0 Hz with their signals
\* delivered, both temp_files lists empty.  regenerated and callbacks count
\* what the last handler did: the frequency plots update_frequency_domain_plot
\* loaded and the valueChanged signals delivered; zoom holds the bounds the
\* last handler was called with when it was on_plot_freq_zoom
Ui_init ==
    [plot_combo |-> "Time-Domain Analysis",
     freq_min_spin |-> 0, freq_max_spin |-> 200,
     freq_min_blocked |-> FALSE, freq_max_blocked |-> FALSE,
     controller_temp_files |-> 0, view_temp_files |-> 0,
     controller_on_disk |-> 0, view_on_disk |-> 0,
     regenerated |-> 0, callbacks |-> 0, zoom |-> <<>>,
     closed |-> FALSE]

\* a handler starts on the widgets u
BeginUi(u) ==
    [u |-> [u EXCEPT !.regenerated = 0, !.callbacks = 0, !.zoom = <<>>], dialogs |-> <<>>]

\* one more file, counted up to MaxFiles
OneMore(n) == IF n < MaxFiles THEN n + 1 ELSE MaxFiles

\* MainController.load_plot: a NamedTemporaryFile(delete=False) is written and
\* its path appended to the controller's temp_files
load_plot(w) ==
    [w EXCEPT !.u.controller_temp_files = OneMore(@),
              !.u.controller_on_disk = OneMore(@)]

\* MainView.update_plots -> update_filter_response_plot: a temporary file is
\* written and its path appended to the view's temp_files
update_plots(w) ==
    [w EXCEPT !.u.view_temp_files = OneMore(@),
              !.u.view_on_disk = OneMore(@)]

\* MainController.display_selected_plot: the html of the selected plot (or
\* 'Plot not available.') is loaded
display_selected_plot(w) == load_plot(w)

\* MainController.update_frequency_domain_plot.  generate_frequency_domain_plot
\* returns an error page instead of raising, so the plot is loaded whenever
\* fm < fx
update_frequency_domain_plot(w) ==
    IF w.u.plot_combo # "Frequency-Domain Analysis" THEN w
    ELSE IF w.u.freq_min_spin >= w.u.freq_max_spin
    THEN [w EXCEPT !.dialogs = Append(@, Error("Freq Plot Error", "freq min >= freq max"))]
    ELSE load_plot([w EXCEPT !.u.regenerated = @ + 1])

\* QDoubleSpinBox.setValue: the value is bound to the range of the spin box
Bound(x, lo, hi) == IF x < lo THEN lo ELSE IF x > hi THEN hi ELSE x

\* freq_min_spin.setValue(x), range 0.0..200.0: valueChanged is emitted when
\* the value changes, and delivered to update_frequency_domain_plot unless
\* the signals of the spin box are blocked
freq_min_spin_setValue(w, x) ==
    LET b == Bound(x, 0, 2000)
    IN  IF b = w.u.freq_min_spin THEN w
        ELSE IF w.u.freq_min_blocked THEN [w EXCEPT !.u.freq_min_spin = b]
        ELSE update_frequency_domain_plot(
                 [w EXCEPT !.u.freq_min_spin = b, !.u.callbacks = @ + 1])

\* freq_max_spin.setValue(x), range 0.1..200.0
freq_max_spin_setValue(w, x) ==
    LET b == Bound(x, 1, 2000)
    IN  IF b = w.u.freq_max_spin THEN w
        ELSE IF w.u.freq_max_blocked THEN [w EXCEPT !.u.freq_max_spin = b]
        ELSE update_frequency_domain_plot(
                 [w EXCEPT !.u.freq_max_spin = b, !.u.callbacks = @ + 1])

\* on_plot_freq_zoom without blockSignals
on_plot_freq_zoom_unblocked(w, fmin, fmax) ==
    LET lo  == IF fmin < 0 THEN 0 ELSE fmin
        hi0 == IF fmax <= lo THEN lo + 1 ELSE fmax
        hi  == IF hi0 > 200 THEN 200 ELSE hi0
    IN  update_frequency_domain_plot(
            freq_max_spin_setValue(freq_min_spin_setValue(w, 10 * lo), 10 * hi))

\* MainController.on_plot_freq_zoom(fmin, fmax), fmin and fmax in Hz
on_plot_freq_zoom(w, fmin, fmax) ==
    LET lo  == IF fmin < 0 THEN 0 ELSE fmin
        hi0 == IF fmax <= lo THEN lo + 1 ELSE fmax
        hi  == IF hi0 > 200 THEN 200 ELSE hi0
        w1  == [w EXCEPT !.u.freq_min_blocked = TRUE, !.u.freq_max_blocked = TRUE]
        w2  == freq_min_spin_setValue(w1, 10 * lo)
        w3  == freq_max_spin_setValue(w2, 10 * hi)
        w4  == [w3 EXCEPT !.u.freq_min_blocked = FALSE, !.u.freq_max_blocked = FALSE]
    IN  update_frequency_domain_plot(w4)

\* MainView.closeEvent: the files of the view's temp_files are removed
closeEvent(w) == [w EXCEPT !.u.view_on_disk = 0, !.u.closed = TRUE]

\* the end of a load or apply handler that passed every stage: update_plots
\* and display_selected_plot; a handler that stopped touches no plot
publish_plots(u, ok) ==
    IF ok THEN display_selected_plot(update_plots(BeginUi(u))).u ELSE BeginUi(u).u

----------------------------------------------------------------------------
(* The session: the user edits widgets and clicks Load Record / Apply Parameters *)

NoCall == [op |-> "none", signal |-> <<>>, args |-> <<>>, out |-> None]

Init ==
    /\ model = ABPModel_init
    /\ view = View_init
    /\ dialogs = <<>>
    /\ stages = <<>>
    /\ action = "init"
    /\ call = NoCall
    /\ ui = Ui_init

Edit(v) ==
    /\ ~ui.closed
    /\ v # view
    /\ view' = v
    /\ action' = "edit"
    /\ dialogs' = <<>>
    /\ stages' = <<>>
    /\ UNCHANGED <<model, call, ui>>

SetMinValue == \E x \in MinChoices : Edit([view EXCEPT !.min_value_spin = x])
SetMaxValue == \E x \in MaxChoices : Edit([view EXCEPT !.max_value_spin = x])
SetFilterType == \E x \in FilterTypes : Edit([view EXCEPT !.filter_type_combo = x])
SetWindowSize == \E x \in WindowChoices : Edit([view EXCEPT !.window_size_spin = x])
SetDistance == \E x \in DistanceChoices : Edit([view EXCEPT !.distance_spin = x])

Handled(r, name) ==
    /\ ~ui.closed
    /\ model' = r.m
    /\ dialogs' = r.dialogs
    /\ stages' = r.stages
    /\ action' = name
    /\ ui' = publish_plots(ui, r.ok)
    /\ UNCHANGED call

\* load_button.clicked, with record_combo at rec
LoadRecord ==
    \E rec \in all_records :
        /\ view' = [view EXCEPT !.record_combo = rec]
        /\ Handled(Controller_load_record(model, view, rec), "load")

\* apply_button.clicked
ApplyParameters ==
    /\ view' = view
    /\ Handled(Controller_apply_parameters(model, view), "apply")

Next ==
    \/ SetMinValue
    \/ SetMaxValue
    \/ SetFilterType
    \/ SetWindowSize
    \/ SetDistance
    \/ LoadRecord
    \/ ApplyParameters

Spec == Init /\ [][Next]_vars

----------------------------------------------------------------------------
(* The session with the plot widgets: the user also selects plots, edits   *)
(* the frequency range, zooms the frequency chart and closes the window     *)

\* the values the user moves the frequency spin boxes to (tenths of a Hz)
FreqChoices == {0, 2000}
\* the bounds a chart zoom reports through PlotBridge.onFreqZoom (Hz)
ZoomChoices == {-5, 10, 250}

\* the effect of a handler of the plot widgets
HandledUi(w, name) ==
    /\ ~ui.closed
    /\ ui' = w.u
    /\ dialogs' = w.dialogs
    /\ stages' = <<>>
    /\ action' = name
    /\ UNCHANGED <<model, view, call>>

\* plot_combo.currentIndexChanged -> display_selected_plot
SelectPlot ==
    \E p \in PlotTypes \ {ui.plot_combo} :
        HandledUi(display_selected_plot([BeginUi(ui) EXCEPT !.u.plot_combo = p]), "plot")

\* the user edits freq_min_spin / freq_max_spin
SetFreqMin == \E x \in FreqChoices : HandledUi(freq_min_spin_setValue(BeginUi(ui), x), "freq")
SetFreqMax == \E x \in FreqChoices : HandledUi(freq_max_spin_setValue(BeginUi(ui), x), "freq")

\* bridge.freqRangeChanged -> on_plot_freq_zoom
PlotFreqZoom ==
    \E fmin \in ZoomChoices, fmax \in ZoomChoices :
        HandledUi(on_plot_freq_zoom([BeginUi(ui) EXCEPT !.u.zoom = <<fmin, fmax>>],
                                    fmin, fmax), "zoom")

\* the user closes the main window
CloseWindow == HandledUi(closeEvent(BeginUi(ui)), "close")

NextUi ==
    \/ SetFilterType
    \/ LoadRecord
    \/ ApplyParameters
    \/ SelectPlot
    \/ SetFreqMin
    \/ SetFreqMax
    \/ PlotFreqZoom
    \/ CloseWindow

SpecUi == Init /\ [][NextUi]_vars

----------------------------------------------------------------------------
(* Direct calls of the pipeline functions on every small signal *)

Levels == {Num(l) : l \in 0..MaxLevel} \cup {NaN}
Signals == UNION {[1..n -> Levels] : n \in 0..MaxLen}

\* sampling rates of the direct calls
FsChoices == {1, 2}
\* FWHM (ms) of the direct calls: kernels of 2, 4 and 7 taps
FwhmChoices == {-1, 0, 1, 500}

InitFn ==
    /\ model = ABPModel_init
    /\ view = View_init
    /\ dialogs = <<>>
    /\ stages = <<>>
    /\ action = "init"
    /\ ui = Ui_init
    /\ \E s \in Signals : call = [op |-> "input", signal |-> s, args |-> <<>>, out |-> None]

\* one direct call on the input signal
Called(op, args, out) ==
    /\ call.op = "input"
    /\ call' = [op |-> op, signal |-> call.signal, args |-> args, out |-> out]
    /\ UNCHANGED <<model, view, dialogs, stages, action, ui>>

CallRangeFilter ==
    \E mn \in 0..MaxLevel, mx \in 0..MaxLevel :
        Called("range", <<mn, mx>>, apply_value_range_filter(call.signal, Num(mn), Num(mx)))

CallRunningMean ==
    \E w \in 0..(MaxLen + 1) :
        Called("running_mean", <<w>>, RunningMeanFilter_apply(w, call.signal))

CallGaussian ==
    \E fwhm \in FwhmChoices, fs \in FsChoices :
        Called("gaussian", <<fwhm, fs>>, GaussianFilter_apply(fwhm, call.signal, fs))

\* ABPModel after load_record has read a record whose ABP channel is signal
Loaded(signal, fs) ==
    [ABPModel_init EXCEPT !.abp_signal = Some(signal), !.fs = Some(fs),
                          !.record_loaded = TRUE]

\* the filter widgets of a view whose spin boxes are not limited to the ranges
\* MainView gives them (window_size_spin 1..100, fwhm_spin 0.1..10000)
FilterWidgets ==
    {<<"Butterworth", 0>>} \cup
    {<<"Running Mean", w>> : w \in -1..2} \cup
    {<<"Gaussian", fwhm>> : fwhm \in {-1, 0, 1}}

\* MainController.apply_parameters on a model that holds call.signal, the
\* range widgets at [0, MaxLevel]
CallApplyParameters ==
    \E f \in FilterWidgets, fs \in FsChoices :
        LET v == [View_init EXCEPT !.min_value_spin = 0, !.max_value_spin = MaxLevel,
                                   !.filter_type_combo = f[1],
                                   !.window_size_spin = f[2], !.fwhm_spin = f[2]]
        IN  Called("apply_parameters", <<f[1], f[2], fs>>,
                   Controller_apply_parameters(Loaded(call.signal, fs), v))

\* the signal with every sample lowered by off
Lowered(signal, off) == [i \in 1..Len(signal) |-> RSub(signal[i], Num(off))]

\* ABPModel.assess_sqi on no signal, on the input signal and on the input
\* signal lowered by one level (levels -1..MaxLevel-1)
CallSqi ==
    \/ Called("sqi", <<"none">>, assess_sqi(None))
    \/ \E off \in {0, 1} :
          Called("sqi", <<"signal", off>>, assess_sqi(Some(Lowered(call.signal, off))))

\* the set S of integers as an increasing sequence
RECURSIVE Increasing(_)
Increasing(S) ==
    IF S = {} THEN <<>>
    ELSE LET lo == CHOOSE a \in S : \A b \in S : a <= b
         IN  <<lo>> \o Increasing(S \ {lo})

\* ABPModel.calculate_pp on no signal and on the input signal, with every set
\* of valid indices as the peaks
CallPp ==
    \/ Called("pp", <<"none", <<0>>>>, calculate_pp(None, <<0>>))
    \/ \E P \in SUBSET (0..(Len(call.signal) - 1)) :
          Called("pp", <<"signal", Increasing(P)>>,
                 calculate_pp(Some(call.signal), Increasing(P)))

NextFn ==
    \/ CallRangeFilter
    \/ CallRunningMean
    \/ CallGaussian
    \/ CallApplyParameters
    \/ CallSqi
    \/ CallPp

SpecFn == InitFn /\ [][NextFn]_vars

----------------------------------------------------------------------------
(* Direct calls of peak detection on every small signal without gaps *)

PeakLevels == {Num(0), Num(1), Num(2)}
PeakSignals == UNION {[1..n -> PeakLevels] : n \in 1..MaxPeakLen}

\* threshold_spin values of the direct calls
ThresholdChoices == {1, 70}
\* sampling rate of the direct calls
PeakFs == 2
\* distance_spin values (hundredths of a second) of the direct calls: at
\* PeakFs they give distances of 0, 1, 2 and 3 samples
PeakDistanceChoices == {25, 50, 100, 150}

InitPk ==
    /\ model = ABPModel_init
    /\ view = View_init
    /\ dialogs = <<>>
    /\ stages = <<>>
    /\ action = "init"
    /\ ui = Ui_init
    /\ \E s \in PeakSignals : call = [op |-> "input", signal |-> s, args |-> <<>>, out |-> None]

\* ABPModel.detect_peaks and then, as the handlers do when it succeeded,
\* ABPModel.calculate_metrics, on a loaded model whose filtered signal is
\* filtered: [peaks |-> what detect_peaks returns, metrics |-> what
\* calculate_metrics returns]
PeaksThenMetrics(m, threshold_percentile, min_distance_cs) ==
    LET r == detect_peaks(m, threshold_percentile, min_distance_cs)
    IN  [peaks |-> r,
         metrics |-> IF r.ok THEN calculate_metrics(r.m)
                     ELSE [ok |-> FALSE, m |-> r.m, log |-> <<>>]]

\* peak detection before any filtered signal exists
CallDetectPeaksUnfiltered ==
    \E thr \in ThresholdChoices, cs \in PeakDistanceChoices, fs \in {PeakFs} :
        Called("detect_peaks", <<"unfiltered", thr, cs, fs>>,
               PeaksThenMetrics(Loaded(call.signal, fs), thr, cs))

\* the peak sets an earlier run of the handlers left in the model
EarlierPeaks == <<1>>

\* peak detection with the signal limited to the levels 1..2 as the filtered
\* signal (the range stage stores it in filtered_signal), on a model that
\* still holds the peak sets of an earlier run
CallDetectPeaksFiltered ==
    \E thr \in ThresholdChoices, cs \in PeakDistanceChoices, fs \in {PeakFs} :
        /\ ~IsNone(apply_value_range_filter(call.signal, Num(1), Num(2)))
        /\ Called("detect_peaks", <<"filtered", thr, cs, fs>>,
                  PeaksThenMetrics(
                      [Loaded(call.signal, fs) EXCEPT
                          !.filtered_signal =
                              apply_value_range_filter(call.signal, Num(1), Num(2)),
                          !.peaks_original = EarlierPeaks,
                          !.peaks_filtered = EarlierPeaks],
                      thr, cs))

NextPk ==
    \/ CallDetectPeaksUnfiltered
    \/ CallDetectPeaksFiltered

SpecPk == InitPk /\ [][NextPk]_vars

----------------------------------------------------------------------------
(* Direct calls of the heart-rate metrics on every small peak set *)

\* the strictly increasing peak sets over the indices 0..MaxPeak, and the
\* peaks 100, 150, 225
PeakSets == {Increasing(P) : P \in SUBSET (0..MaxPeak)} \cup {<<100, 150, 225>>}

\* sampling rates of the direct calls
HrFsChoices == {1, 2, 100}

InitHr ==
    /\ model = ABPModel_init
    /\ view = View_init
    /\ dialogs = <<>>
    /\ stages = <<>>
    /\ action = "init"
    /\ ui = Ui_init
    /\ \E p \in PeakSets : call = [op |-> "input", signal |-> <<>>, args |-> <<p>>, out |-> None]

\* ABPModel.calculate_hr(peaks, fs)
CallHr ==
    \E fs \in HrFsChoices :
        Called("hr", <<call.args[1], fs>>, calculate_hr(call.args[1], fs))

\* ABPModel.compute_hrv on the RR series calculate_hr returns, as
\* calculate_metrics calls it
CallHrv ==
    \E fs \in HrFsChoices :
        Called("hrv", <<call.args[1], fs>>, compute_hrv(calculate_hr(call.args[1], fs)[2]))

NextHr ==
    \/ CallHr
    \/ CallHrv

SpecHr == InitHr /\ [][NextHr]_vars

----------------------------------------------------------------------------
(* Direct calls of the Butterworth filter and of an apply with it *)

\* the longest signal of the Butterworth calls
MaxButterLen == 16

\* signals of the level 1, of every length up to MaxButterLen, without a gap
\* and with a gap in the first sample
ButterSignals ==
    {[i \in 1..n |-> IF i = g THEN NaN ELSE Num(1)] : n \in 0..MaxButterLen, g \in {0, 1}}

\* lowcut_spin (0.01..100 Hz) and highcut_spin (0.1..100 Hz) in mHz, order_spin
LowcutChoices == {10, 300, 499, 500, 1200}
HighcutChoices == {100, 8000}
OrderChoices == {1, 2}

InitBw ==
    /\ model = ABPModel_init
    /\ view = View_init
    /\ dialogs = <<>>
    /\ stages = <<>>
    /\ action = "init"
    /\ ui = Ui_init
    /\ \E s \in ButterSignals : call = [op |-> "input", signal |-> s, args |-> <<>>, out |-> None]

\* ButterworthFilter(lowcut, highcut, order).apply(signal, fs), and
\* MainController.apply_parameters with the same values in the Butterworth
\* widgets and the range widgets at [0, MaxLevel], on a model that holds the
\* signal
CallButterworth ==
    \E lowcut \in LowcutChoices, highcut \in HighcutChoices,
       order \in OrderChoices, fs \in FsChoices :
        LET v == [View_init EXCEPT !.min_value_spin = 0, !.max_value_spin = MaxLevel,
                                   !.filter_type_combo = "Butterworth",
                                   !.lowcut_spin = lowcut, !.highcut_spin = highcut,
                                   !.order_spin = order]
        IN  Called("butterworth", <<lowcut, highcut, order, fs>>,
                   [run |-> ButterworthFilter_run(lowcut, highcut, order, call.signal, fs),
                    handler |-> Controller_apply_parameters(Loaded(call.signal, fs), v)])

NextBw == CallButterworth

SpecBw == InitBw /\ [][NextBw]_vars

----------------------------------------------------------------------------
(* Properties *)

Handlers == {"load", "apply"}

\* the results a session publishes: the filtered signal, both peak sets and
\* both sets of metrics
Published(m) ==
    <<m.filtered_signal, m.peaks_original, m.peaks_filtered,
      m.hr_original, m.rr_intervals_original, m.hrv_original,
      m.sqi_original, m.pp_original,
      m.hr_filtered, m.rr_intervals_filtered, m.hrv_filtered,
      m.sqi_filtered, m.pp_filtered>>

HasError(d) == \E i \in 1..Len(d) : d[i].kind = "error"
Failed(a, d) == a \in Handlers /\ HasError(d)
Succeeded(a, d) == a \in Handlers /\ d # <<>> /\ ~HasError(d)

Started(stage) == \E i \in 1..Len(stages) : stages[i] = stage
LastStage == IF stages = <<>> THEN "none" ELSE stages[Len(stages)]

Raw == Val(model.abp_signal)
RangeMin == Num(view.min_value_spin)
RangeMax == Num(view.max_value_spin)
InRange(x) == RLe(RangeMin, x) /\ RLe(x, RangeMax)

\* C1: a load or apply action in which a stage fails leaves the published
\* filtered signal, peak sets and metrics exactly as they were before it
C1_FailedRunKeepsPublished ==
    [][Failed(action', dialogs') => Published(model') = Published(model)]_vars

\* C2: after a successful run the published filtered signal is the filter
\* strategy applied to the output of the run's range filter
C2_FilterReadsRangeOutput ==
    Succeeded(action, dialogs) =>
        model.filtered_signal =
            FilterStrategy_apply(StrategyOf(view),
                Val(apply_value_range_filter(Raw, RangeMin, RangeMax)), Val(model.fs))

\* the results of one run, from the raw signal, the sampling rate and the
\* configuration alone
RunResults(raw, fs, v) ==
    LET strategy == StrategyOf(v)
        dist == distance_samples(v.distance_spin, fs)
        filtered == FilterStrategy_apply(strategy, raw, fs)
        po == Val(find_peaks(raw, nanpercentile(raw, v.threshold_spin), dist))
        pf == Val(find_peaks(Val(filtered),
                             nanpercentile(Val(filtered), v.threshold_spin), dist))
        o == calculate_hr(po, fs)
        f == calculate_hr(pf, fs)
    IN  <<filtered, po, pf,
          o[1], o[2], compute_hrv(o[2]), assess_sqi(Some(raw)), calculate_pp(Some(raw), po),
          f[1], f[2], compute_hrv(f[2]), assess_sqi(filtered), calculate_pp(filtered, pf)>>

\* C3: after a successful load or apply action everything published is the
\* result of that run: a function of the raw signal, the sampling rate and the
\* current configuration only, whatever runs came before
C3_PublishedIsFunctionOfInputs ==
    Succeeded(action, dialogs) =>
        /\ Published(model) = RunResults(Raw, Val(model.fs), view)
        /\ model.filter_strategy = Some(StrategyOf(view))

\* a successful run that follows a failed one and a run with another
\* configuration on the same record
C3_Witness ==
    /\ Succeeded(action, dialogs)
    /\ action = "apply"
    /\ view.filter_type_combo = "Running Mean"
    /\ view.min_value_spin = 100
    /\ Len(model.peaks_filtered) > 0
    /\ HasNaN(Val(apply_value_range_filter(Raw, RangeMin, RangeMax)))

\* the fixed order of the stages of a handler
StageOrder(a) ==
    (IF a = "load" THEN <<"load">> ELSE <<>>) \o
    <<"validate", "range", "configure", "filter",
      "peaks_original", "peaks_filtered", "metrics_original", "metrics_filtered">>

\* whether a stage, run on the current record and configuration, succeeds
StageSucceeds(stage) ==
    IF stage = "load" THEN model.record_loaded
    ELSE IF stage = "validate" THEN RLt(RangeMin, RangeMax)
    ELSE IF stage = "range" THEN \E i \in 1..Len(Raw) : InRange(Raw[i])
    ELSE IF stage = "filter"
        THEN ~IsNone(FilterStrategy_apply(StrategyOf(view), Raw, Val(model.fs)))
    ELSE IF stage = "peaks_original"
        THEN distance_samples(view.distance_spin, Val(model.fs)) >= 1
    ELSE TRUE

\* C4: the stages of a load or apply action run in the fixed order, a stage
\* starts only if every earlier stage succeeded, no stage runs after the first
\* failure, and a failed action reports exactly one error
C4_StagesInOrderFailFast ==
    action \in Handlers =>
        LET order == StageOrder(action)
        IN  /\ Len(stages) <= Len(order)
            /\ \A k \in 1..Len(stages) :
                  /\ stages[k] = order[k]
                  /\ k < Len(stages) => StageSucceeds(stages[k])
            /\ stages # <<>> =>
                  IF StageSucceeds(LastStage)
                  THEN stages = order /\ dialogs = <<Info(dialogs[1].title)>>
                  ELSE Len(dialogs) = 1 /\ dialogs[1].kind = "error"
            /\ stages = <<>> =>
                  action = "apply" /\ Len(dialogs) = 1 /\ dialogs[1].title = "No Record"

\* a run that stopped at the filter stage and one that stopped at peak detection
C4_Witness ==
    /\ action = "apply"
    /\ LastStage = "peaks_original"
    /\ HasError(dialogs)
    /\ view.filter_type_combo = "Running Mean"

\* C5: an apply action, failed or not, leaves the raw samples, the sampling
\* rate and the unit unchanged; only a load action changes them
C5_ApplyKeepsRawSignal ==
    [][/\ action' = "apply" =>
            /\ model'.abp_signal = model.abp_signal
            /\ model'.fs = model.fs
            /\ model'.unit = model.unit
       /\ <<model'.abp_signal, model'.fs, model'.unit>> #
            <<model.abp_signal, model.fs, model.unit>> => action' = "load"]_vars

\* an apply whose range filter masked samples of the raw signal
C5_Witness ==
    /\ action = "apply"
    /\ Started("range")
    /\ ~IsNone(model.filtered_signal)
    /\ \E i \in 1..Len(Raw) : ~InRange(Raw[i])
    /\ \E i \in 1..Len(Raw) : InRange(Raw[i])
    /\ RLt(RangeMin, RangeMax)

StrictlyIncreasing(p) == \A i \in 1..(Len(p) - 1) : p[i] < p[i + 1]
ValidIndices(p, signal) ==
    \A i \in 1..Len(p) : 0 <= p[i] /\ ~IsNone(signal) /\ p[i] < Len(Val(signal))

\* C6: in every reachable state both peak sets are strictly increasing, the
\* original one indexes the current raw signal and the filtered one the current
\* filtered signal
C6_PeaksIndexCurrentSignals ==
    /\ StrictlyIncreasing(model.peaks_original)
    /\ StrictlyIncreasing(model.peaks_filtered)
    /\ ValidIndices(model.peaks_original, model.abp_signal)
    /\ ValidIndices(model.peaks_filtered, model.filtered_signal)

\* C8: a run on a loaded signal fails at the range stage exactly when
\* min >= max or no raw sample lies in [min, max], and with min >= max the
\* range filter is not executed
C8_RangeStageFailsIff ==
    (action \in Handlers /\ Started("validate")) =>
        /\ (HasError(dialogs) /\ LastStage \in {"validate", "range"})
              <=> (~RLt(RangeMin, RangeMax) \/ ~\E i \in 1..Len(Raw) : InRange(Raw[i]))
        /\ ~RLt(RangeMin, RangeMax) => ~Started("range")

\* a run with min < max and no raw sample in the range
C8_Witness ==
    /\ action \in Handlers
    /\ LastStage = "range"
    /\ HasError(dialogs)
    /\ RLt(RangeMin, RangeMax)

\* a run with min >= max
C8_WitnessBounds ==
    /\ action \in Handlers
    /\ LastStage = "validate"
    /\ HasError(dialogs)

\* C7: a successful range filter returns a signal of the input's length in
\* which every sample in [min, max], bounds included, is the input sample and
\* every other sample is missing; with every sample inside, nothing is missing
C7_RangeFilterMasksOutside ==
    (call.op = "range" /\ ~IsNone(call.out)) =>
        LET out == Val(call.out)
            s   == call.signal
            inside(i) == s[i][2] = 1 /\ call.args[1] <= s[i][1] /\ s[i][1] <= call.args[2]
        IN  /\ Len(out) = Len(s)
            /\ \A i \in 1..Len(s) : out[i] = IF inside(i) THEN s[i] ELSE NaN
            /\ (\A i \in 1..Len(s) : inside(i)) => ~HasNaN(out)

\* min < max, a sample on each bound kept and a sample outside masked
C7_Witness ==
    /\ call.op = "range"
    /\ ~IsNone(call.out)
    /\ call.args[1] < call.args[2]
    /\ \E i \in 1..Len(call.signal) : Val(call.out)[i] = Num(call.args[1])
    /\ \E i \in 1..Len(call.signal) : Val(call.out)[i] = Num(call.args[2])
    /\ \E i \in 1..Len(call.signal) : IsNum(call.signal[i]) /\ IsNaN(Val(call.out)[i])

\* C9: whenever Running Mean or Gaussian returns a signal it has exactly the
\* length of the input signal, also when the kernel is longer than the signal
C9_FilterKeepsLength ==
    (call.op \in {"running_mean", "gaussian"} /\ ~IsNone(call.out)) =>
        Len(Val(call.out)) = Len(call.signal)

\* C10: Running Mean with a window below 1 and Gaussian with an FWHM of 0 or
\* less return no signal for any input, and a run with such a filter stops at
\* the filter stage with one error, before peak detection
C10_InvalidFilterParametersStopRun ==
    /\ (call.op = "running_mean" /\ call.args[1] < 1) => IsNone(call.out)
    /\ (call.op = "gaussian" /\ call.args[1] <= 0) => IsNone(call.out)
    /\ (/\ call.op = "apply_parameters"
        /\ call.args[1] \in {"Running Mean", "Gaussian"}
        /\ call.args[2] < 1
        /\ \E i \in 1..Len(call.signal) : IsNum(call.signal[i])) =>
            /\ call.out.stages = <<"validate", "range", "configure", "filter">>
            /\ call.out.dialogs = <<Error("Apply Error", "Failed to apply filter.")>>
            /\ call.out.m.peaks_original = <<>>
            /\ call.out.m.filtered_signal = Some(call.signal)

\* a run with window 0 on a signal the range filter accepts
C10_Witness ==
    /\ call.op = "apply_parameters"
    /\ call.args[1] = "Running Mean"
    /\ call.args[2] = 0
    /\ call.out.stages = <<"validate", "range", "configure", "filter">>

ChangesWhenRefiltered(w, s, once) ==
    /\ ~HasNaN(s)
    /\ ~IsNone(once)
    /\ ~IsNone(RunningMeanFilter_apply(w, Val(once)))
    /\ \E i \in 1..Len(Val(once)) :
          RunningMeanFilter_apply(w, Val(once))[1][i] # Val(once)[i]

\* the non-constant signal of the example
Bump == <<Num(0), Num(1), Num(0)>>

\* C12: filters are not idempotent: Running Mean with window 3 applied to its
\* own output on the non-constant signal [0, 1, 0] differs from Running Mean
\* applied once
C12_FiltersNotIdempotent ==
    ChangesWhenRefiltered(3, Bump,
        IF call.op = "running_mean" /\ call.args = <<3>> /\ call.signal = Bump
        THEN call.out ELSE RunningMeanFilter_apply(3, Bump))

\* Running Mean with window 3 was applied to a non-constant signal, and
\* applying it to the output changes the output
C12_Witness ==
    /\ call.op = "running_mean"
    /\ call.args[1] = 3
    /\ \E i, j \in 1..Len(call.signal) : call.signal[i] # call.signal[j]
    /\ ChangesWhenRefiltered(3, call.signal, call.out)

\* the number of taps of the kernel of a Running Mean or Gaussian call
KernelLen ==
    IF call.op = "running_mean" THEN call.args[1]
    ELSE GaussianKernelLen(call.args[1], call.args[2])

\* the input indices (from 0) under a kernel of n taps centred on index i, as
\* a 'same' convolution centres it
Support(n, i) ==
    {j \in 0..(Len(call.signal) - 1) :
        i - (n - 1 - (n - 1) \div 2) <= j /\ j <= i + (n - 1) \div 2}

\* C13: an output sample of Running Mean and Gaussian is missing exactly when
\* one of the input samples under the kernel at that position is missing
C13_GapsSpreadUnderKernel ==
    (call.op \in {"running_mean", "gaussian"} /\ ~IsNone(call.out)) =>
        \A i \in 0..(Len(Val(call.out)) - 1) :
            IsNaN(At(Val(call.out), i)) <=>
                \E j \in Support(KernelLen, i) : IsNaN(At(call.signal, j))

\* C13 for the calls whose kernel is not longer than the signal
C13_GapsSpreadUnderShortKernel ==
    (/\ call.op \in {"running_mean", "gaussian"}
     /\ ~IsNone(call.out)
     /\ KernelLen <= Len(call.signal)) =>
        \A i \in 0..(Len(Val(call.out)) - 1) :
            IsNaN(At(Val(call.out), i)) <=>
                \E j \in Support(KernelLen, i) : IsNaN(At(call.signal, j))

\* the signal of a "sqi" call and its non-missing samples
SqiSignal == IF call.args[1] = "none" THEN <<>> ELSE Lowered(call.signal, call.args[2])
SqiValid == DropNaN(SqiSignal)
SqiMax == CHOOSE x \in {SqiValid[i] : i \in 1..Len(SqiValid)} :
              \A i \in 1..Len(SqiValid) : RLe(SqiValid[i], x)
\* 1 - mean(|successive differences|) / max over the non-missing samples
SqiRaw ==
    RSub(Num(1),
         RDiv(RDiv(RSum([i \in 1..(Len(SqiValid) - 1) |->
                            IF RLt(SqiValid[i], SqiValid[i + 1])
                            THEN RSub(SqiValid[i + 1], SqiValid[i])
                            ELSE RSub(SqiValid[i], SqiValid[i + 1])]),
                   Num(Len(SqiValid) - 1)),
              SqiMax))

\* C19: SQI lies in [0, 1]; it is 0 with fewer than 2 non-missing samples or
\* when their maximum is 0, and otherwise 1 - mean(|successive differences of
\* the non-missing samples|) / max(non-missing samples) clamped to [0, 1]
C19_SqiClampedFormula ==
    call.op = "sqi" =>
        /\ RLe(Num(0), call.out) /\ RLe(call.out, Num(1))
        /\ Len(SqiValid) < 2 => call.out = Num(0)
        /\ (Len(SqiValid) >= 2 /\ SqiMax = Num(0)) => call.out = Num(0)
        /\ (Len(SqiValid) >= 2 /\ SqiMax # Num(0)) =>
              call.out = IF RLt(SqiRaw, Num(0)) THEN Num(0)
                         ELSE IF RLt(Num(1), SqiRaw) THEN Num(1)
                         ELSE SqiRaw

\* an SQI strictly between 0 and 1 of a signal with a gap
C19_Witness ==
    /\ call.op = "sqi"
    /\ call.args[1] = "signal"
    /\ HasNaN(call.signal)
    /\ RLt(Num(0), call.out) /\ RLt(call.out, Num(1))

\* the unclamped value is below 0 and the SQI is 0
C19_WitnessClamped ==
    /\ call.op = "sqi"
    /\ Len(SqiValid) >= 2
    /\ SqiMax # Num(0)
    /\ RLt(SqiRaw, Num(0))
    /\ call.out = Num(0)

\* C20: for every signal and every peak set of valid indices into it PP is
\* mean(signal at the peaks) - min(non-missing samples) and is >= 0, and PP is
\* 0 when the peak set is empty or the signal is absent or empty
C20_PpNonNegative ==
    call.op = "pp" =>
        /\ RLe(Num(0), call.out)
        /\ (call.args[1] = "none" \/ Len(call.signal) = 0 \/ Len(call.args[2]) = 0)
              => call.out = Num(0)

\* floor(minDistanceSeconds * samplingRate) of a "detect_peaks" call
PkDistance == (call.args[3] * call.args[4]) \div 100
\* the local maxima of x at or above the threshold percentile of the call
Candidates(x) ==
    SelectByHeight(x, LocalMaxima(x, 1), nanpercentile(x, call.args[2]))
\* strictly increasing, consecutive peaks at least d samples apart
Apart(peaks, d) ==
    \A i \in 1..(Len(peaks) - 1) :
        peaks[i] < peaks[i + 1] /\ peaks[i + 1] - peaks[i] >= d

\* C14: when peak detection succeeds, each returned peak set is strictly
\* increasing and consecutive peaks are at least
\* floor(minDistanceSeconds * samplingRate) samples apart
C14_PeaksApart ==
    (call.op = "detect_peaks" /\ call.out.peaks.ok) =>
        /\ Apart(call.out.peaks.m.peaks_original, PkDistance)
        /\ Apart(call.out.peaks.m.peaks_filtered, PkDistance)

\* a distance of 2 samples or more removed a candidate and left two peaks
C14_Witness ==
    /\ call.op = "detect_peaks"
    /\ call.out.peaks.ok
    /\ PkDistance >= 2
    /\ Len(call.out.peaks.m.peaks_original) >= 2
    /\ Len(Candidates(call.signal)) > Len(call.out.peaks.m.peaks_original)

\* the positions in the candidates c that hold the index p
Holds(c, p) == \E k \in 1..Len(c) : c[k] = p

\* C15: of two candidate peaks of equal height closer than the minimum
\* distance, with no other candidate within the minimum distance of either,
\* the earlier one is accepted and the later one is not
C15_EarlierOfEqualPeaksWins ==
    (call.op = "detect_peaks" /\ call.out.peaks.ok) =>
        LET x == call.signal
            c == Candidates(x)
            kept == call.out.peaks.m.peaks_original
        IN  \A a, b \in 1..Len(c) :
                (/\ a < b
                 /\ At(x, c[a]) = At(x, c[b])
                 /\ c[b] - c[a] < PkDistance
                 /\ \A k \in 1..Len(c) \ {a, b} :
                        /\ Abs(c[k] - c[a]) >= PkDistance
                        /\ Abs(c[k] - c[b]) >= PkDistance)
                => (Holds(kept, c[a]) /\ ~Holds(kept, c[b]))

HrPeaks == call.args[1]
HrFs == call.args[2]
\* RR[i] = (peaks[i+1] - peaks[i]) / samplingRate
RRof(i) == Rat(HrPeaks[i + 1] - HrPeaks[i], HrFs)

\* C17: the RR series is empty for fewer than 2 peaks and otherwise has
\* |peaks| - 1 entries RR[i] = (peaks[i+1] - peaks[i]) / samplingRate > 0,
\* and the HR series has the same length with HR[i] = 60 / RR[i]; peaks
\* 100, 150, 225 at 100 Hz give RR 0.5, 0.75 and HR 120, 80
C17_RrAndHrSeries ==
    call.op = "hr" =>
        LET hr == call.out[1]
            rr == call.out[2]
        IN  /\ Len(HrPeaks) < 2 => (rr = <<>> /\ hr = <<>>)
            /\ Len(HrPeaks) >= 2 =>
                  /\ Len(rr) = Len(HrPeaks) - 1
                  /\ Len(hr) = Len(rr)
                  /\ \A i \in 1..Len(rr) :
                        /\ rr[i] = RRof(i)
                        /\ RLt(Num(0), rr[i])
                        /\ hr[i] = Rat(60 * HrFs, HrPeaks[i + 1] - HrPeaks[i])
            /\ (HrPeaks = <<100, 150, 225>> /\ HrFs = 100) =>
                  /\ rr = <<Rat(1, 2), Rat(3, 4)>>
                  /\ hr = <<Num(120), Num(80)>>

\* the example of the claim
C17_Witness ==
    /\ call.op = "hr"
    /\ HrPeaks = <<100, 150, 225>>
    /\ HrFs = 100
    /\ call.out[1] = <<Num(120), Num(80)>>

\* mean of the squared successive RR differences, times 1000 squared
MeanSquare ==
    RMul(RDiv(RSum([i \in 1..(Len(HrPeaks) - 2) |->
                       RMul(RSub(RRof(i + 1), RRof(i)), RSub(RRof(i + 1), RRof(i)))]),
              Num(Len(HrPeaks) - 2)),
         Num(1000 * 1000))

\* C18: HRV is 0 with fewer than 2 RR intervals (fewer than 3 peaks) and
\* otherwise sqrt(mean of the squared successive RR differences) * 1000, which
\* is >= 0; for peaks 100, 150, 225 at 100 Hz it is 250
C18_HrvIsRmssdMs ==
    call.op = "hrv" =>
        /\ Len(HrPeaks) < 3 => call.out = Sqrt(Num(0))
        /\ Len(HrPeaks) >= 3 => call.out = Sqrt(MeanSquare)
        /\ RLe(Num(0), call.out.sqrt_of)
        /\ (HrPeaks = <<100, 150, 225>> /\ HrFs = 100) =>
              call.out = Sqrt(Num(250 * 250))

\* the example of the claim
C18_Witness ==
    /\ call.op = "hrv"
    /\ HrPeaks = <<100, 150, 225>>
    /\ HrFs = 100
    /\ call.out = Sqrt(Num(250 * 250))

\* unevenly spaced peaks: an HRV above 0
C18_WitnessUneven ==
    /\ call.op = "hrv"
    /\ Len(HrPeaks) >= 4
    /\ RLt(Num(0), call.out.sqrt_of)

NoRecord == Error("No Record", "Load a record first.")

\* C26: apply runs the pipeline only when the most recent load attempt
\* succeeded: a load leaves record_loaded true exactly when the record had an
\* ABP channel, and an apply without it shows 'No Record', starts no stage and
\* changes nothing in the model, while an apply with it starts the pipeline
C26_ApplyNeedsLastLoad ==
    [][/\ action' = "load" =>
              (model'.record_loaded <=> ~IsNone(Archive(view'.record_combo)))
       /\ (action' = "apply" /\ ~model.record_loaded) =>
              (dialogs' = <<NoRecord>> /\ stages' = <<>> /\ model' = model)
       /\ (action' = "apply" /\ model.record_loaded) =>
              (stages' # <<>> /\ \A i \in 1..Len(dialogs') : dialogs'[i] # NoRecord)]_vars

\* an apply rejected after a failed load, with the signal of an earlier
\* successful load still in the model
C26_Witness ==
    /\ action = "apply"
    /\ dialogs = <<NoRecord>>
    /\ ~IsNone(model.abp_signal)
    /\ ~model.record_loaded

\* the signal of a "detect_peaks" call holds one level, from 1 up, in two
\* samples or more
ConstantSignal ==
    /\ Len(call.signal) >= 2
    /\ \A i \in 1..Len(call.signal) : call.signal[i] = call.signal[1]
    /\ RLe(Num(1), call.signal[1])

\* C21: on a constant signal inside the range the range filter keeps every
\* sample, peak detection at any percentile and any minimum distance above 0
\* returns empty peak sets, and the metrics are an empty HR series, HRV 0,
\* PP 0 and SQI 1
C21_FlatSignalScenario ==
    (call.op = "detect_peaks" /\ call.args[1] = "filtered" /\ ConstantSignal) =>
        /\ apply_value_range_filter(call.signal, Num(1), Num(2)) = Some(call.signal)
        /\ call.out.peaks.ok
        /\ call.out.peaks.m.peaks_original = <<>>
        /\ call.out.peaks.m.peaks_filtered = <<>>
        /\ call.out.metrics.ok
        /\ call.out.metrics.m.hr_filtered = <<>>
        /\ call.out.metrics.m.hrv_filtered = Sqrt(Num(0))
        /\ call.out.metrics.m.pp_filtered = Num(0)
        /\ call.out.metrics.m.sqi_filtered = Num(1)

\* C21 where the minimum distance is one sample or more
C21_FlatSignalAtOneSampleOrMore ==
    (call.op = "detect_peaks" /\ PkDistance >= 1) => C21_FlatSignalScenario

\* the candidates of x that are not among the accepted peaks lie closer than
\* d to an accepted peak at least as high
RejectedNearTaller(x, kept, d) ==
    LET c == Candidates(x)
    IN  \A a \in 1..Len(c) :
            ~Holds(kept, c[a]) =>
                \E k \in 1..Len(kept) :
                    /\ Abs(kept[k] - c[a]) < d
                    /\ RLe(At(x, c[a]), At(x, kept[k]))

\* C24: every candidate that is not accepted lies closer than the minimum
\* distance to an accepted peak whose height is greater than or equal to its
\* own, in the original and in the filtered signal
C24_RejectedNearAcceptedTaller ==
    (call.op = "detect_peaks" /\ call.out.peaks.ok) =>
        /\ RejectedNearTaller(call.signal, call.out.peaks.m.peaks_original, PkDistance)
        /\ call.args[1] = "filtered" =>
               RejectedNearTaller(Val(apply_value_range_filter(call.signal, Num(1), Num(2))),
                                  call.out.peaks.m.peaks_filtered, PkDistance)

\* three candidates of which the middle one is near both others: the tallest
\* dropped it, and the third is accepted although the dropped one is near it
C24_Witness ==
    /\ call.op = "detect_peaks"
    /\ call.out.peaks.ok
    /\ PkDistance = 3
    /\ Candidates(call.signal) = <<1, 3, 5>>
    /\ RLt(At(call.signal, 3), At(call.signal, 1))
    /\ call.out.peaks.m.peaks_original = <<1, 5>>

\* C27: peak detection fails and leaves both peak sets as they were whenever
\* floor(minDistanceSeconds * samplingRate) is less than 1, and succeeds on a
\* loaded signal whenever it is 1 or more
C27_DistanceBelowOneSampleFails ==
    call.op = "detect_peaks" =>
        IF PkDistance < 1
        THEN /\ ~call.out.peaks.ok
             /\ call.out.peaks.m.peaks_original =
                    (IF call.args[1] = "filtered" THEN EarlierPeaks ELSE <<>>)
             /\ call.out.peaks.m.peaks_filtered =
                    (IF call.args[1] = "filtered" THEN EarlierPeaks ELSE <<>>)
        ELSE call.out.peaks.ok

\* a minimum distance above 0 s that is less than one sample, on a model that
\* holds earlier peaks and a signal with a local maximum
C27_Witness ==
    /\ call.op = "detect_peaks"
    /\ call.args[1] = "filtered"
    /\ call.args[3] > 0
    /\ PkDistance = 0
    /\ ~call.out.peaks.ok
    /\ call.out.peaks.m.peaks_original = EarlierPeaks
    /\ Candidates(call.signal) # <<>>
    /\ Candidates(call.signal) # EarlierPeaks

\* a successful detection at exactly one sample of distance
C27_WitnessOneSample ==
    /\ call.op = "detect_peaks"
    /\ PkDistance = 1
    /\ call.out.peaks.ok
    /\ call.out.peaks.m.peaks_original # <<>>

\* the input samples under a window of w taps centred on index i (from 0):
\* the window reaches w - 1 - floor((w - 1) / 2) samples back and
\* floor((w - 1) / 2) samples ahead; positions outside the signal hold nothing
WindowSamples(w, i) ==
    LET back == w - 1 - (w - 1) \div 2
        lo   == IF i - back > 0 THEN i - back ELSE 0
        hi0  == i + (w - 1) \div 2
        hi   == IF hi0 < Len(call.signal) - 1 THEN hi0 ELSE Len(call.signal) - 1
    IN  [k \in 1..(hi - lo + 1) |-> At(call.signal, lo + k - 1)]

\* output i of a "running_mean" call is (1/w) times the sum of the input
\* samples under the window, nothing added for the positions past the edges
ZeroPaddedMean(w, i) ==
    At(Val(call.out), i) = RMul(Rat(1, w), RSum(WindowSamples(w, i)))

\* output i is less than the mean of the input samples under the window
Attenuated(w, i) ==
    RLt(At(Val(call.out), i),
        RDiv(RSum(WindowSamples(w, i)), Num(Len(WindowSamples(w, i)))))

\* a "running_mean" call with a window not longer than the signal
ShortWindow ==
    /\ call.op = "running_mean"
    /\ call.args[1] >= 1
    /\ call.args[1] <= Len(call.signal)

\* no gaps and every sample above 0
Positive(s) == \A i \in 1..Len(s) : RLt(Num(0), s[i])

\* C25 as stated: each output is (1/w) times the sum of the samples under the
\* centred window, positions past the edges contributing zero, and on a
\* signal above 0 the first floor(w/2) and the last floor(w/2) outputs are
\* below the local mean
C25_ZeroPaddedBothEndsHalfWindow ==
    ShortWindow =>
        LET w == call.args[1]
            n == Len(call.signal)
        IN  /\ ~IsNone(call.out)
            /\ Len(Val(call.out)) = n
            /\ \A i \in 0..(n - 1) : ZeroPaddedMean(w, i)
            /\ Positive(call.signal) =>
                   \A i \in 0..(n - 1) :
                       (i < w \div 2 \/ i >= n - w \div 2) => Attenuated(w, i)

\* C25, amended: each output is (1/w) times the sum of the samples under the
\* centred window, positions past the edges contributing zero, and on a
\* signal above 0 the first floor(w/2) and the last floor((w-1)/2) outputs
\* are below the local mean
C25_ZeroPaddedCentredWindow ==
    ShortWindow =>
        LET w == call.args[1]
            n == Len(call.signal)
        IN  /\ ~IsNone(call.out)
            /\ Len(Val(call.out)) = n
            /\ \A i \in 0..(n - 1) : ZeroPaddedMean(w, i)
            /\ Positive(call.signal) =>
                   \A i \in 0..(n - 1) :
                       (i < w \div 2 \/ i >= n - (w - 1) \div 2) => Attenuated(w, i)

\* an even window on a signal above 0 whose levels differ: the first output
\* is below the local mean and the last one is not
C25_Witness ==
    /\ ShortWindow
    /\ call.args[1] = 2
    /\ Len(call.signal) >= 3
    /\ Positive(call.signal)
    /\ \E i, j \in 1..Len(call.signal) : call.signal[i] # call.signal[j]
    /\ Attenuated(2, 0)
    /\ ~Attenuated(2, Len(call.signal) - 1)

\* an odd window on a signal above 0: the first and the last output are below
\* the local mean
C25_WitnessOdd ==
    /\ ShortWindow
    /\ call.args[1] = 3
    /\ Positive(call.signal)
    /\ Attenuated(3, 0)
    /\ Attenuated(3, Len(call.signal) - 1)

\* the Butterworth call of the state: what apply did, its order, its padding
BwRun == call.out.run
BwPadLen == 3 * (2 * call.args[3] + 1)
BwValid == 0 < BwRun.low /\ BwRun.low < BwRun.high /\ BwRun.high < BwRun.nyquist

\* C22: the cutoffs Butterworth apply passes to the filter design satisfy
\* 0 < low < high < nyquist with high - low >= 0.001 Hz; otherwise apply has
\* failed on the low >= high check and the design is not reached
C22_DesignGetsValidCutoffs ==
    call.op = "butterworth" =>
        \/ BwRun.raised = "check"
        \/ BwValid /\ BwRun.high - BwRun.low >= 1

\* C23: Butterworth apply returns no signal, and the run stops at the filter
\* stage, for every signal not longer than 3 * (2 * order + 1); for longer
\* signals with valid cutoffs it returns a signal of the input's length and
\* the run goes on past the filter stage
C23_PaddingLengthGuard ==
    call.op = "butterworth" =>
        LET n == Len(call.signal)
            h == call.out.handler
            ranged == \E i \in 1..n : IsNum(call.signal[i])
        IN  /\ n <= BwPadLen =>
                /\ IsNone(BwRun.out)
                /\ ranged =>
                     /\ h.stages = <<"validate", "range", "configure", "filter">>
                     /\ h.dialogs = <<Error("Apply Error", "Failed to apply filter.")>>
            /\ (n > BwPadLen /\ BwValid) =>
                /\ ~IsNone(BwRun.out)
                /\ Len(Val(BwRun.out)) = n
                /\ Len(h.stages) > 4
                /\ SubSeq(h.stages, 1, 4) = <<"validate", "range", "configure", "filter">>
                /\ Len(Val(h.m.filtered_signal)) = n

\* an order-1 filter with valid cutoffs rejects the signal of 9 samples only
\* because of its length
C23_Witness ==
    /\ call.op = "butterworth"
    /\ call.args[3] = 1
    /\ Len(call.signal) = 9
    /\ BwValid
    /\ BwRun.raised = "filtfilt"
    /\ call.out.handler.stages = <<"validate", "range", "configure", "filter">>

\* the same filter accepts the signal of 10 samples
C23_WitnessLonger ==
    /\ call.op = "butterworth"
    /\ call.args[3] = 1
    /\ Len(call.signal) = 10
    /\ ~IsNone(BwRun.out)
    /\ Len(call.out.handler.stages) > 4

\* C28: once the main window is closed no temporary file of the session is
\* left, neither of those load_plot wrote nor of those
\* update_filter_response_plot wrote
C28_NoTempFileOutlivesClose ==
    ui.closed => (ui.controller_on_disk = 0 /\ ui.view_on_disk = 0)

\* C28 for the files of the view alone
C28_ViewFilesRemovedOnClose ==
    ui.closed => ui.view_on_disk = 0

FreqRangeError == Error("Freq Plot Error", "freq min >= freq max")

\* C29: after a chart zoom, whatever pair of bounds it reported, the minimum
\* frequency spin box holds less than the maximum frequency spin box and the
\* regeneration that follows shows no 'freq min >= freq max' error
C29_ZoomLeavesMinBelowMax ==
    action = "zoom" =>
        /\ ui.freq_min_spin < ui.freq_max_spin
        /\ \A i \in 1..Len(dialogs) : dialogs[i] # FreqRangeError

\* C29 for the zooms whose lower bound is below 200 Hz
C29_ZoomBelowTopLeavesMinBelowMax ==
    (action = "zoom" /\ ui.zoom[1] < 200) => C29_ZoomLeavesMinBelowMax

\* C30: a chart zoom regenerates the frequency plot exactly once when the
\* frequency plot is selected and not at all otherwise, delivers no
\* valueChanged signal of the two spin boxes, and leaves the signals of both
\* spin boxes unblocked
C30_ZoomRegeneratesOnce ==
    action = "zoom" =>
        /\ ui.regenerated =
               (IF ui.plot_combo = "Frequency-Domain Analysis" THEN 1 ELSE 0)
        /\ ui.callbacks = 0
        /\ ~ui.freq_min_blocked /\ ~ui.freq_max_blocked

\* C30 for the zooms whose lower bound is below 200 Hz
C30_ZoomBelowTopRegeneratesOnce ==
    (action = "zoom" /\ ui.zoom[1] < 200) => C30_ZoomRegeneratesOnce

====
